---------------------------- MODULE Spec2Model ----------------------------
(***************************************************************************)
(* The analogue clock of th3james/clock, in its three variants:            *)
(*   "line"   : the SDL renderer clock          (src/unnamed/part_000)     *)
(*   "shader" : the 2D OpenGL shader clock      (src/clock.c)              *)
(*   "3d"     : the lit 3D OpenGL clock         (src/unnamed/part_001)     *)
(* The state machine is main(): init_clock, then the loop                  *)
(* handle_events / render_clock / SDL_Delay, then cleanup_clock.           *)
(* render_clock is split into its steps; pc names the step to run next.    *)
(* Angles are kept in thousandths of a degree, so 0.5 degree per minute    *)
(* is 500 and 0.006 degree per millisecond is 6: the arithmetic of the     *)
(* code on doubles is exact on these integers.                             *)
(***************************************************************************)
EXTENDS Integers, Sequences, FiniteSets, TLC

\* Longest event queue the environment builds up between two polls.
MaxQueue == 2
\* Saturation of the count of frames presented while a quit waits.
MaxPending == 2

Variants == {"line", "shader", "3d"}

\* SDL_GetWindowPixelDensity: the display densities explored.
ScaleFactors == {1, 2}

\* The SDL events the environment delivers: the window-close event, Escape
\* going down, another key going down, Escape going up.
Events ==
  { [type |-> "SDL_EVENT_QUIT",     key |-> "none"],
    [type |-> "SDL_EVENT_KEY_DOWN", key |-> "SDLK_ESCAPE"],
    [type |-> "SDL_EVENT_KEY_DOWN", key |-> "SDLK_A"],
    [type |-> "SDL_EVENT_KEY_UP",   key |-> "SDLK_ESCAPE"] }

\* What the host clock returns: struct tm fields and tv_nsec.  tm_sec is 60
\* during a leap second.
HostHours   == {0, 3, 11, 12, 15, 23}
HostMinutes == {0, 1, 59}
HostSeconds == {0, 59, 60}
HostNsec    == {0, 999999, 999999999}

\* The whole range of tm_hour and tm_min, with the ends of the range of
\* tm_sec, for the checks of the angle arithmetic.
AllHours    == 0..23
AllMinutes  == 0..59
EdgeSeconds == {0, 1, 59, 60}

\* What an int read through a NULL struct tm * may hold, when the read does
\* not trap.
GarbageInts == {-13, 61}

VARIABLES
  variant,          \* which of the three programs runs
  pc,               \* position in main / render_clock
  running,          \* clock.running
  scale_factor,     \* clock.scale_factor
  res,              \* resources held: SDL, window, context/renderer, GL objects, buffers
  teardown,         \* the release calls made so far, in order
  diag,             \* diagnostics printed so far
  init_result,      \* what init_clock returned; "none" before it ran
  exit_status,      \* "none" while the process runs, else how it ended
  queue,            \* SDL's event queue
  frame,            \* the steps of the current loop iteration's render_clock, in order
  sample,           \* hours, minutes, seconds, milliseconds of render_clock
  angles,           \* hour_angle, minute_angle, second_angle of render_clock
  hand_args,        \* the angle argument of each draw_hand call of this frame
  read_failed,      \* the host clock read of this frame failed
  draw_failed,      \* some draw call of this run reported failure
  presents_pending, \* frames presented while a quit or Escape waits in the queue
  cleanups,         \* calls of cleanup_clock
  ever,             \* whether an event poll, a render step, a present ever happened,
                    \* and whether a poll ever drained a window-close or Escape-down event
  clk,              \* the Clock fields filled by init_clock: shader program, vertex counts, capacities
  geo,              \* what the latest geometry generator call wrote and handed to its draw call
  circ              \* the midpoint circle loop of draw_circle_outline, one iteration per step

vars == << variant, pc, running, scale_factor, res, teardown, diag, init_result,
           exit_status, queue, frame, sample, angles, hand_args, read_failed,
           draw_failed, presents_pending, cleanups, ever, clk, geo, circ >>

\* misuse: a release call was made on a resource not held.
NoRes == [sdl |-> FALSE, window |-> FALSE, context |-> FALSE,
          gl_objects |-> {}, buffers |-> {}, misuse |-> FALSE]

NoSample == [set |-> FALSE, hours |-> 0, minutes |-> 0, seconds |-> 0,
             milliseconds |-> 0]

NoAngles == [set |-> FALSE, hour |-> 0, minute |-> 0, second |-> 0]

NoEver == [polled |-> FALSE, rendered |-> FALSE, presented |-> FALSE,
           stop_polled |-> FALSE]

\* C's % truncates towards zero.
CRem(a, b) == IF a >= 0 THEN a % b ELSE -((-a) % b)

\* C's integer division truncates towards zero.
CDiv(a, b) == IF a >= 0 THEN a \div b ELSE -((-a) \div b)

-----------------------------------------------------------------------------
(* The geometry generators.  Lengths are whole pixels unless a name says    *)
(* thousandths; positions on a circle are kept as the angle they are        *)
(* generated at, in thousandths of a degree, since sin and cos are not      *)
(* computed here.  A buffer is followed by its capacity in vertices and by  *)
(* the indices written into it; allocations are taken to succeed.           *)

\* (int)(logical * clock->scale_factor), for the whole scale factors explored.
Scaled(logical, s) == logical * s

\* The writes into one buffer, as the set of indices written, summed up: how
\* many, the lowest and the highest.
Writes(indices) ==
  [count |-> Cardinality(indices),
   lo    |-> IF indices = {} THEN 0
             ELSE CHOOSE i \in indices : \A j \in indices : i <= j,
   hi    |-> IF indices = {} THEN -1
             ELSE CHOOSE i \in indices : \A j \in indices : i >= j]

NoWrites == Writes({})

\* vertices[idx++] = ...; n times in a row, idx starting at `first`.
WriteRun(first, n) == first .. (first + n - 1)

\* (float)i * 2.0f * M_PI / segments, in thousandths of a degree.
SegmentAngle(i, segments) == (i * 360000) \div segments

\* A circle loop that stops before the closing point: i < segments.
CircleLoop_Open(segments) == { i \in 0 .. (segments + 1) : i < segments }

\* for (int i = 0; i <= segments; i++) vertices[i] = point at SegmentAngle(i):
\* the indices written.
CircleLoop(segments) == { i \in 0 .. (segments + 1) : i <= segments }

\* The 2D shader circle of `segments` segments: the writes of the loop, and
\* the angle of the point at each written index, in index order.
LineStripCircle(segments) ==
  LET w == Writes(CircleLoop(segments))
  IN  [w |-> w,
       ring |-> [k \in 1..w.count |-> SegmentAngle(w.lo + k - 1, segments)]]

\* const int segments = 720; the loops of precompute_circle and render_clock.
Circle720 == LineStripCircle(720)

\* const int center_segments = 32; the loop of the center hub.
Circle32 == LineStripCircle(32)

\* A ring loop that runs one segment too far: i <= segments.
Ring3dLoop_Closed(segments) == { i \in 0 .. segments : i <= segments }

\* create_circle_outline_3d: int idx = 0; for (i = 0; i < segments; i++) two
\* triangles, six vertices[idx++] writes; *vertex_count = idx.
Ring3dLoop(segments) == { i \in 0 .. segments : i < segments }

CreateCircleOutline3d(segments) ==
  [w   |-> Writes(UNION { WriteRun(6 * i, 6) : i \in Ring3dLoop(segments) }),
   idx |-> 6 * Cardinality(Ring3dLoop(segments))]

\* const int segments = 60; the face ring of precompute_circle (3d).
Ring60 == CreateCircleOutline3d(60)

\* The hub ring of render_clock (3d), 20 segments.
Ring20 == CreateCircleOutline3d(20)

\* A marker a tenth of the radius long.
MarkerLength_Tenth(radius) == CDiv(radius, 10)

\* int marker_length = radius / 12;
MarkerLength(radius) == CDiv(radius, 12)

\* marker_thickness in thousandths of a pixel: int radius / 80 in the 2D
\* variants, float radius / 80.0f in the 3D variant.
MarkerThicknessMilli(v, radius) ==
  IF v = "3d" THEN CDiv(radius * 1000, 80) ELSE CDiv(radius, 80) * 1000

\* Vertices written per marker: two triangles, doubled for the 3D back face.
VerticesPerMarker(v) ==
  CASE v = "line" -> 0 [] v = "shader" -> 6 [] v = "3d" -> 12

\* A marker loop that stops one hour early.
MarkerHours_Eleven == { hour \in 0 .. 12 : hour < 11 }

\* for (int hour = 0; hour < 12; hour++)
MarkerHours == { hour \in 0 .. 12 : hour < 12 }

\* One marker per hour of the loop, at hour * 30 degrees from
\* radius - marker_length to radius, its vertices written at vertex_index++.
HourMarkers(v, radius) ==
  [w   |-> Writes(UNION { WriteRun(VerticesPerMarker(v) * hour,
                                   VerticesPerMarker(v)) : hour \in MarkerHours }),
   idx |-> VerticesPerMarker(v) * Cardinality(MarkerHours),
   markers |-> [k \in 1 .. Cardinality(MarkerHours) |->
                  [angle |-> (k - 1) * 30000,
                   inner |-> radius - MarkerLength(radius),
                   outer |-> radius,
                   thickness_milli |-> MarkerThicknessMilli(v, radius)]]]

\* The midpoint circle of the line variant: int x = 0; int y = radius;
\* int d = 3 - 1 * radius;
McStart(radius) ==
  [radius |-> radius, x |-> 0, y |-> radius, d |-> 3 - radius, iterations |-> 0]

\* while (y >= x)
McGuard(st) == st.y >= st.x

\* An iteration that leaves out the last of the eight points.
McPlot_SevenPoints(st) ==
  { << st.x, st.y >>, << -st.x, st.y >>, << st.x, -st.y >>, << -st.x, -st.y >>,
    << st.y, st.x >>, << -st.y, st.x >>, << st.y, -st.x >> }

\* The eight SDL_RenderPoint calls of one iteration, as offsets from the center.
McPlot(st) ==
  { << st.x, st.y >>, << -st.x, st.y >>, << st.x, -st.y >>, << -st.x, -st.y >>,
    << st.y, st.x >>, << -st.y, st.x >>, << st.y, -st.x >>, << -st.y, -st.x >> }

\* A loop body that never lowers y.
McBody_NoDescent(st) ==
  [st EXCEPT !.d = st.d + (4 * st.x) + 6, !.x = st.x + 1, !.iterations = @ + 1]

\* if (d < 0) d = d + 4 * x + 6; else { d = d + 4 * (x - y) + 10; y--; } x++;
McBody(st) ==
  IF st.d < 0
    THEN [st EXCEPT !.d = st.d + (4 * st.x) + 6, !.x = st.x + 1,
                    !.iterations = @ + 1]
    ELSE [st EXCEPT !.d = st.d + (4 * (st.x - st.y)) + 10, !.y = st.y - 1,
                    !.x = st.x + 1, !.iterations = @ + 1]

\* The loop of one midpoint circle followed step by step: its variables, the
\* offsets plotted so far, the state before the latest iteration.
NoCirc == [st |-> McStart(0), plotted |-> {}, prev |-> McStart(0), active |-> FALSE]

\* The geometry of one generator call: the buffer, its capacity, the writes
\* into it, the vertex count handed to the draw call, the lengths it used (in
\* thousandths of a pixel), and what the circle and marker generators made.
NoGeo ==
  [step |-> "none", buffer |-> "none", capacity |-> 0, w |-> NoWrites,
   submitted |-> 0, lengths |-> << >>, ring |-> << >>, markers |-> << >>]

\* The Clock fields besides window, context, scale_factor and running, the
\* capacity of the two allocated buffers, and how many vertices the latest
\* generation wrote into circle_vertices.
NoClk ==
  [shader_program |-> "none", circle_vertex_count |-> 0, circle_capacity |-> 0,
   circle_written |-> 0, hand_vertex_count |-> 0, hand_capacity |-> 0]

\* precompute_circle, with the allocations of init_clock around it.
PrecomputeCircle(v, s, shader) ==
  CASE v = "line" -> NoClk
    [] v = "shader" ->
         [shader_program |-> shader,
          circle_vertex_count |-> 720 + 1,
          circle_capacity |-> 720 + 1,
          circle_written |-> Circle720.w.count,
          hand_vertex_count |-> 0, hand_capacity |-> 0]
    [] v = "3d" ->
         [shader_program |-> shader,
          circle_vertex_count |-> Ring60.idx,
          circle_capacity |-> 1000,
          circle_written |-> Ring60.w.count,
          hand_vertex_count |-> 0, hand_capacity |-> 100]

\* What init_clock's precompute_circle call generated.
PrecomputeGeo(v, s, c) ==
  CASE v = "line" -> NoGeo
    [] v = "shader" ->
         [NoGeo EXCEPT !.step = "precompute", !.buffer = "circle_vertices",
                       !.capacity = c.circle_capacity,
                       !.w = Circle720.w,
                       !.ring = Circle720.ring,
                       !.lengths = [radius |-> 1000 * Scaled(250, s)]]
    [] v = "3d" ->
         [NoGeo EXCEPT !.step = "precompute", !.buffer = "circle_vertices",
                       !.capacity = c.circle_capacity,
                       !.w = Ring60.w,
                       !.lengths = [radius |-> 1000 * Scaled(250, s),
                                    ring_width |-> 1000 * 10]]

\* The face of one frame: the midpoint circle (line), the regenerated line
\* strip handed to draw_circle_outline (shader), the precomputed ring handed
\* to draw_3d_object (3d).
FaceGeo(v, s, c) ==
  CASE v = "line" ->
         [NoGeo EXCEPT !.step = "face",
                       !.lengths = [radius |-> 1000 * Scaled(250, s)]]
    [] v = "shader" ->
         [NoGeo EXCEPT !.step = "face", !.buffer = "circle_vertices",
                       !.capacity = c.circle_capacity,
                       !.w = Circle720.w,
                       !.ring = Circle720.ring,
                       !.submitted = c.circle_vertex_count,
                       !.lengths = [radius |-> 1000 * Scaled(250, s)]]
    [] v = "3d" ->
         [NoGeo EXCEPT !.step = "face", !.buffer = "circle_vertices",
                       !.capacity = c.circle_capacity,
                       !.submitted = c.circle_vertex_count]

\* render_clock of the shader variant refills circle_vertices every frame.
FaceCount(v, c, g) ==
  IF v = "shader" THEN [c EXCEPT !.circle_written = g.w.count] ELSE c

\* draw_hour_markers: the local array, the generator, the draw call.
MarkerGeo(v, s) ==
  LET radius == Scaled(250, s)
      m == HourMarkers(v, radius)
      len == [radius |-> 1000 * radius,
              marker_length |-> 1000 * MarkerLength(radius),
              marker_thickness |-> MarkerThicknessMilli(v, radius)]
  IN  CASE v = "line" ->
             [NoGeo EXCEPT !.step = "markers", !.markers = m.markers,
                           !.lengths = len]
        [] v = "shader" ->
             [NoGeo EXCEPT !.step = "markers", !.buffer = "marker_vertices",
                           !.capacity = 12 * 6, !.w = m.w, !.submitted = m.idx,
                           !.markers = m.markers, !.lengths = len]
        [] v = "3d" ->
             [NoGeo EXCEPT !.step = "markers", !.buffer = "marker_vertices",
                           !.capacity = 12 * 12, !.w = m.w, !.submitted = m.idx,
                           !.markers = m.markers,
                           !.lengths = [radius |-> len.radius,
                                        marker_length |-> len.marker_length,
                                        marker_thickness |-> len.marker_thickness,
                                        marker_depth |-> 1000 * 3]]

\* The logical length and thickness of each hand.
HandLength(hand) ==
  CASE hand = "hour" -> 120 [] hand = "minute" -> 180 [] hand = "second" -> 200

HandThickness(v, hand) ==
  IF v = "3d"
    THEN CASE hand = "hour" -> 8 [] hand = "minute" -> 6 [] hand = "second" -> 3
    ELSE CASE hand = "hour" -> 6 [] hand = "minute" -> 4 [] hand = "second" -> 2

\* draw_hand: a line bundle (line), a six-vertex local array (shader),
\* create_hand_vertices into clock->hand_vertices (3d).
HandGeo(v, hand, s, c) ==
  LET len == [length |-> 1000 * Scaled(HandLength(hand), s),
              thickness |-> 1000 * Scaled(HandThickness(v, hand), s)]
  IN  CASE v = "line" ->
             [NoGeo EXCEPT !.step = hand, !.lengths = len]
        [] v = "shader" ->
             [NoGeo EXCEPT !.step = hand, !.buffer = "hand_vertices",
                           !.capacity = 6, !.w = Writes(WriteRun(0, 6)),
                           !.submitted = 6, !.lengths = len]
        [] v = "3d" ->
             [NoGeo EXCEPT !.step = hand, !.buffer = "hand_vertices",
                           !.capacity = c.hand_capacity,
                           !.w = Writes(WriteRun(0, 12)),
                           !.submitted = 12,
                           !.lengths = [length |-> len.length,
                                        thickness |-> len.thickness,
                                        hand_depth |-> 1000 * 2]]

\* create_hand_vertices stores its count in clock->hand_vertex_count (3d).
HandCount(v, c, g) ==
  IF v = "3d" THEN [c EXCEPT !.hand_vertex_count = g.w.count] ELSE c

\* The center hub: the midpoint circle of radius 8 (line), a 32-segment line
\* strip in a local array of 33 (shader), a 20-segment ring in a local array
\* of 120 (3d).
HubGeo(v, s) ==
  CASE v = "line" ->
         [NoGeo EXCEPT !.step = "hub",
                       !.lengths = [hub_radius |-> 1000 * Scaled(8, s)]]
    [] v = "shader" ->
         [NoGeo EXCEPT !.step = "hub", !.buffer = "center_vertices",
                       !.capacity = 32 + 1,
                       !.w = Circle32.w,
                       !.ring = Circle32.ring,
                       !.submitted = 32 + 1,
                       !.lengths = [hub_radius |-> 1000 * Scaled(8, s)]]
    [] v = "3d" ->
         [NoGeo EXCEPT !.step = "hub", !.buffer = "center_vertices",
                       !.capacity = 120,
                       !.w = Ring20.w,
                       !.submitted = Ring20.idx,
                       !.lengths = [hub_radius |-> 1000 * Scaled(12, s),
                                    ring_width |-> 1000 * 10]]

Init ==
  /\ variant \in Variants
  /\ pc = "init"
  /\ running = 0
  /\ scale_factor = 0
  /\ res = NoRes
  /\ teardown = << >>
  /\ diag = {}
  /\ init_result = "none"
  /\ exit_status = "none"
  /\ queue = << >>
  /\ frame = << >>
  /\ sample = NoSample
  /\ angles = NoAngles
  /\ hand_args = << >>
  /\ read_failed = FALSE
  /\ draw_failed = FALSE
  /\ presents_pending = 0
  /\ cleanups = 0
  /\ ever = NoEver
  /\ clk = NoClk
  /\ geo = NoGeo
  /\ circ = NoCirc

-----------------------------------------------------------------------------
(* init_clock and main's test of its result *)

\* The name of the context step's diagnostic in each variant.
ContextDiag ==
  IF variant = "line" THEN "Renderer creation failed"
                      ELSE "OpenGL context creation failed"

\* What one release call does to the resources held.
ReleaseOne(r, call) ==
  CASE call = "SDL_Quit" ->
         [r EXCEPT !.sdl = FALSE, !.misuse = @ \/ ~r.sdl]
    [] call = "SDL_DestroyWindow" ->
         [r EXCEPT !.window = FALSE, !.misuse = @ \/ ~r.window]
    [] call \in {"SDL_GL_DestroyContext", "SDL_DestroyRenderer"} ->
         [r EXCEPT !.context = FALSE, !.misuse = @ \/ ~r.context]
    [] call = "glDeleteVertexArrays" ->
         [r EXCEPT !.gl_objects = @ \ {"vao"}, !.misuse = @ \/ "vao" \notin r.gl_objects]
    [] call = "glDeleteBuffers" ->
         [r EXCEPT !.gl_objects = @ \ {"vbo"}, !.misuse = @ \/ "vbo" \notin r.gl_objects]
    [] call = "glDeleteProgram" ->
         [r EXCEPT !.gl_objects = @ \ {"shader_program"},
                   !.misuse = @ \/ "shader_program" \notin r.gl_objects]
    [] call = "free(circle_vertices)" ->
         [r EXCEPT !.buffers = @ \ {"circle_vertices"},
                   !.misuse = @ \/ "circle_vertices" \notin r.buffers]
    [] call = "free(hand_vertices)" ->
         [r EXCEPT !.buffers = @ \ {"hand_vertices"},
                   !.misuse = @ \/ "hand_vertices" \notin r.buffers]

RECURSIVE Release(_, _)
\* The resources left after a sequence of release calls.
Release(r, calls) ==
  IF calls = << >> THEN r
  ELSE Release(ReleaseOne(r, Head(calls)), Tail(calls))

\* init_clock failing at SDL_Init: nothing was acquired, nothing is released.
InitFailSdl ==
  /\ diag' = diag \cup {"SDL initialization failed"}
  /\ res' = res
  /\ teardown' = teardown
  /\ init_result' = "0"
  /\ UNCHANGED << running, scale_factor, clk, geo >>

\* init_clock failing at SDL_CreateWindow: SDL_Quit.
InitFailWindow ==
  /\ diag' = diag \cup {"Window creation failed"}
  /\ res' = Release([res EXCEPT !.sdl = TRUE], << "SDL_Quit" >>)
  /\ teardown' = teardown \o << "SDL_Quit" >>
  /\ init_result' = "0"
  /\ UNCHANGED << running, scale_factor, clk, geo >>

\* A context failure path that forgets SDL_DestroyWindow.
InitFailContext_LeakWindow ==
  /\ diag' = diag \cup {ContextDiag}
  /\ res' = Release([res EXCEPT !.sdl = TRUE, !.window = TRUE], << "SDL_Quit" >>)
  /\ teardown' = teardown \o << "SDL_Quit" >>
  /\ init_result' = "0"
  /\ UNCHANGED << running, scale_factor, clk, geo >>

\* init_clock failing at SDL_GL_CreateContext / SDL_CreateRenderer:
\* SDL_DestroyWindow, SDL_Quit.
InitFailContext ==
  /\ diag' = diag \cup {ContextDiag}
  /\ res' = Release([res EXCEPT !.sdl = TRUE, !.window = TRUE],
                    << "SDL_DestroyWindow", "SDL_Quit" >>)
  /\ teardown' = teardown \o << "SDL_DestroyWindow", "SDL_Quit" >>
  /\ init_result' = "0"
  /\ UNCHANGED << running, scale_factor, clk, geo >>

\* How compile_shader and glLinkProgram can come out: all well, a shader that
\* does not compile (the link then fails too), or a link failure alone.  The
\* line variant has no shaders.
ShaderOutcomes(v) ==
  IF v = "line" THEN {"linked"} ELSE {"linked", "compile_failed", "link_failed"}

\* The printf of compile_shader and of create_shader_program.
ShaderDiag(outcome) ==
  CASE outcome = "linked" -> {}
    [] outcome = "compile_failed" ->
         {"Shader compilation failed", "Shader program linking failed"}
    [] outcome = "link_failed" -> {"Shader program linking failed"}

\* create_shader_program returns the program handle whatever the link status.
ShaderOf(v, outcome) ==
  CASE v = "line" -> "none"
    [] outcome = "linked" -> "linked"
    [] OTHER -> "unlinked"

\* What a successful init_clock holds.
Acquired(v) ==
  [sdl |-> TRUE, window |-> TRUE, context |-> TRUE,
   gl_objects |-> IF v = "line" THEN {} ELSE {"shader_program", "vao", "vbo"},
   buffers |-> CASE v = "line"   -> {}
                 [] v = "shader" -> {"circle_vertices"}
                 [] v = "3d"     -> {"circle_vertices", "hand_vertices"},
   misuse |-> FALSE]

\* An init_clock that gives up when the shader program does not link.
InitOk_ShaderFatal ==
  /\ \E s \in ScaleFactors, outcome \in ShaderOutcomes(variant) :
       /\ scale_factor' = s
       /\ diag' = diag \cup ShaderDiag(outcome)
       /\ clk' = PrecomputeCircle(variant, s, ShaderOf(variant, outcome))
       /\ geo' = PrecomputeGeo(variant, s, clk')
       /\ running' = IF outcome = "linked" THEN 1 ELSE 0
       /\ init_result' = IF outcome = "linked" THEN "1" ELSE "0"
  /\ res' = Acquired(variant)
  /\ UNCHANGED teardown

\* init_clock succeeding: scale factor read, running = 1, and in the GL
\* variants the shader program, VAO/VBO and the vertex buffers.
InitOk ==
  /\ \E s \in ScaleFactors, outcome \in ShaderOutcomes(variant) :
       /\ scale_factor' = s
       /\ diag' = diag \cup ShaderDiag(outcome)
       /\ clk' = PrecomputeCircle(variant, s, ShaderOf(variant, outcome))
       /\ geo' = PrecomputeGeo(variant, s, clk')
  /\ running' = 1
  /\ res' = Acquired(variant)
  /\ init_result' = "1"
  /\ UNCHANGED teardown

InitClock ==
  /\ pc = "init"
  /\ \/ InitFailSdl
     \/ InitFailWindow
     \/ InitFailContext
     \/ InitOk
  /\ pc' = "init_ret"
  /\ UNCHANGED << circ, variant, exit_status, queue, frame, sample, angles, hand_args,
                  read_failed, draw_failed, presents_pending, cleanups, ever >>

\* main: if (!init_clock(&clock)) return 1;
MainInitCheck ==
  /\ pc = "init_ret"
  /\ IF init_result = "0"
       THEN pc' = "exited" /\ exit_status' = "1"
       ELSE pc' = "loop_test" /\ exit_status' = exit_status
  /\ UNCHANGED << clk, geo, circ, variant, running, scale_factor, res, teardown, diag, init_result,
                  queue, frame, sample, angles, hand_args, read_failed, draw_failed,
                  presents_pending, cleanups, ever >>

-----------------------------------------------------------------------------
(* the environment *)

\* The two events that ask the clock to stop: the window-close event and
\* Escape going down.
StopEvents ==
  { [type |-> "SDL_EVENT_QUIT",     key |-> "none"],
    [type |-> "SDL_EVENT_KEY_DOWN", key |-> "SDLK_ESCAPE"] }

HasStop(q) == \E i \in 1..Len(q) : q[i] \in StopEvents

\* The user closes the window or presses a key while the window exists.
Enqueue ==
  /\ pc \notin {"init", "init_ret", "exited"}
  /\ res.window
  /\ Len(queue) < MaxQueue
  /\ \E e \in Events : queue' = Append(queue, e)
  /\ UNCHANGED << clk, geo, circ, variant, pc, running, scale_factor, res, teardown, diag,
                  init_result, exit_status, frame, sample, angles, hand_args,
                  read_failed, draw_failed, presents_pending, cleanups, ever >>

-----------------------------------------------------------------------------
(* main's loop *)

\* while (clock.running)
\* A loop test that goes on polling whatever running holds.
LoopTest_IgnoreStop ==
  /\ pc = "loop_test"
  /\ pc' = "handle_events"
  /\ frame' = << >>
  /\ sample' = NoSample
  /\ angles' = NoAngles
  /\ hand_args' = << >>
  /\ read_failed' = FALSE
  /\ UNCHANGED << clk, geo, circ, variant, running, scale_factor, res, teardown, diag, init_result,
                  exit_status, queue, draw_failed, presents_pending, cleanups, ever >>

LoopTest ==
  /\ pc = "loop_test"
  /\ IF running # 0
       THEN /\ pc' = "handle_events"
            /\ frame' = << >>
            /\ sample' = NoSample
            /\ angles' = NoAngles
            /\ hand_args' = << >>
            /\ read_failed' = FALSE
       ELSE /\ pc' = "cleanup"
            /\ UNCHANGED << frame, sample, angles, hand_args, read_failed >>
  /\ UNCHANGED << clk, geo, circ, variant, running, scale_factor, res, teardown, diag, init_result,
                  exit_status, queue, draw_failed, presents_pending, cleanups, ever >>

\* A loop body that tests the window-close event alone.
OnEvent_QuitOnly(r, event) ==
  IF event.type = "SDL_EVENT_QUIT" THEN 0 ELSE r

\* The body of handle_events' loop for one polled event, on clock->running.
OnEvent(r, event) ==
  LET r1 == IF event.type = "SDL_EVENT_QUIT" THEN 0 ELSE r
  IN  IF event.type = "SDL_EVENT_KEY_DOWN" /\ event.key = "SDLK_ESCAPE"
        THEN 0 ELSE r1

RECURSIVE RunningAfter(_, _)
\* while (SDL_PollEvent(&event)) { ... }: clock->running once q is drained.
RunningAfter(r, q) ==
  IF q = << >> THEN r ELSE RunningAfter(OnEvent(r, Head(q)), Tail(q))

\* handle_events: drains the queue; a quit or an Escape key-down clears running.
HandleEvents ==
  /\ pc = "handle_events"
  /\ running' = RunningAfter(running, queue)
  /\ queue' = << >>
  /\ ever' = [ever EXCEPT !.polled = TRUE,
                          !.stop_polled = @ \/ HasStop(queue)]
  /\ pc' = "clear"
  /\ UNCHANGED << clk, geo, circ, variant, scale_factor, res, teardown, diag, init_result,
                  exit_status, frame, sample, angles, hand_args, read_failed,
                  draw_failed, presents_pending, cleanups >>

\* One step of render_clock that issues draw calls: the library may report
\* failure (a false return, a GL error); the code never looks at it.
DrawResults(here) ==
  IF clk.shader_program = "unlinked" /\ here # "clear" THEN {FALSE} ELSE BOOLEAN

DrawStep(here, next) ==
  /\ pc = here
  /\ \E ok \in DrawResults(here) : draw_failed' = (draw_failed \/ ~ok)
  /\ frame' = Append(frame, here)
  /\ ever' = [ever EXCEPT !.rendered = TRUE]
  /\ pc' = next

\* glClear / SDL_RenderClear
Clear ==
  /\ DrawStep("clear", "face")
  /\ UNCHANGED << clk, geo, circ, variant, running, scale_factor, res, teardown, diag, init_result,
                  exit_status, queue, sample, angles, hand_args, read_failed,
                  presents_pending, cleanups >>

\* draw_circle_outline / draw_3d_object of the face ring
DrawCircleOutline ==
  /\ DrawStep("face", "markers")
  /\ geo' = FaceGeo(variant, scale_factor, clk)
  /\ clk' = FaceCount(variant, clk, geo')
  /\ UNCHANGED << circ, variant, running, scale_factor, res, teardown, diag, init_result,
                  exit_status, queue, sample, angles, hand_args, read_failed,
                  presents_pending, cleanups >>

\* draw_hour_markers
DrawHourMarkers ==
  /\ DrawStep("markers", "sample")
  /\ geo' = MarkerGeo(variant, scale_factor)
  /\ clk' = clk
  /\ UNCHANGED << circ, variant, running, scale_factor, res, teardown, diag, init_result,
                  exit_status, queue, sample, angles, hand_args, read_failed,
                  presents_pending, cleanups >>


-----------------------------------------------------------------------------
(* get_current_time and the angle arithmetic of render_clock *)

\* *hours = time_info->tm_hour % 12
Hour12(tm_hour) == CRem(tm_hour, 12)

\* *milliseconds = ts.tv_nsec / 1000000; the line variant reads no sub-second part.
Millis(v, tv_nsec) == IF v = "line" THEN 0 ELSE CDiv(tv_nsec, 1000000)

\* An hour hand that jumps from hour to hour.
HourAngle_NoCreep(v, hours, minutes) ==
  IF v = "3d" THEN -(hours * 30000) ELSE hours * 30000

\* hour_angle, in thousandths of a degree: hours * 30.0 + minutes * 0.5,
\* negated in the 3D variant.
HourAngle(v, hours, minutes) ==
  IF v = "3d" THEN -((hours * 30000) + (minutes * 500))
              ELSE (hours * 30000) + (minutes * 500)

\* A minute hand nudged by a whole degree per second.
MinuteAngle_DegreePerSecond(v, minutes, seconds) ==
  CASE v = "line"   -> minutes * 6000
    [] v = "shader" -> (minutes * 6000) + (seconds * 1000)
    [] v = "3d"     -> -((minutes * 6000) + (seconds * 1000))

\* minute_angle: minutes * 6.0 in the line variant, + seconds * 0.1 in the
\* shader variant, and that negated in the 3D variant.
MinuteAngle(v, minutes, seconds) ==
  CASE v = "line"   -> minutes * 6000
    [] v = "shader" -> (minutes * 6000) + (seconds * 100)
    [] v = "3d"     -> -((minutes * 6000) + (seconds * 100))

\* A second hand that ticks in every variant.
SecondAngle_NoMillis(v, seconds, milliseconds) ==
  IF v = "3d" THEN -(seconds * 6000) ELSE seconds * 6000

\* second_angle: seconds * 6.0 in the line variant, + milliseconds * 0.006 in
\* the shader variant, and that negated in the 3D variant.
SecondAngle(v, seconds, milliseconds) ==
  CASE v = "line"   -> seconds * 6000
    [] v = "shader" -> (seconds * 6000) + (milliseconds * 6)
    [] v = "3d"     -> -((seconds * 6000) + (milliseconds * 6))

\* The out-parameters of get_current_time for one reading of the host clock.
TimeOf(v, tm_hour, tm_min, tm_sec, tv_nsec) ==
  [set |-> TRUE, hours |-> Hour12(tm_hour), minutes |-> tm_min,
   seconds |-> tm_sec, milliseconds |-> Millis(v, tv_nsec)]

\* The host clock answers, with tm_hour in H, tm_min in M, tm_sec in S and
\* tv_nsec in N.
TimeReadOk(H, M, S, N) ==
  /\ \E h \in H, m \in M, s \in S, n \in N :
       sample' = TimeOf(variant, h, m, s, n)
  /\ pc' = "angles"
  /\ UNCHANGED << read_failed, diag, exit_status >>

\* Shader and 3D variants: clock_gettime fails or localtime returns NULL;
\* get_current_time returns -1 and render_clock prints and calls
\* exit(EXIT_FAILURE).
TimeReadFailChecked ==
  /\ variant # "line"
  /\ read_failed' = TRUE
  /\ diag' = diag \cup {"Error: Unable to get current time"}
  /\ exit_status' = "1"
  /\ pc' = "exited"
  /\ UNCHANGED sample

\* Line variant: time() fails and stores -1; nothing tests it, and localtime
\* converts the -1 into some valid broken-down time.
TimeFailUnchecked(H, M, S) ==
  /\ variant = "line"
  /\ read_failed' = TRUE
  /\ \E h \in H, m \in M, s \in S :
       sample' = TimeOf(variant, h, m, s, 0)
  /\ pc' = "angles"
  /\ UNCHANGED << diag, exit_status >>

\* Line variant: localtime returns NULL and time_info->tm_hour reads through
\* it.  The read traps ...
LocaltimeNullTrap ==
  /\ variant = "line"
  /\ read_failed' = TRUE
  /\ exit_status' = "SIGSEGV"
  /\ pc' = "exited"
  /\ UNCHANGED << sample, diag >>

\* ... or yields whatever the memory holds.
LocaltimeNullGarbage ==
  /\ variant = "line"
  /\ read_failed' = TRUE
  /\ \E g \in GarbageInts : sample' = TimeOf(variant, g, g, g, 0)
  /\ pc' = "angles"
  /\ UNCHANGED << diag, exit_status >>

\* int hours, ...; get_current_time(...), with render_clock's test of the result.
GetCurrentTime(H, M, S, N) ==
  /\ pc = "sample"
  /\ frame' = Append(frame, "sample")
  /\ ever' = [ever EXCEPT !.rendered = TRUE]
  /\ \/ TimeReadOk(H, M, S, N)
     \/ TimeReadFailChecked
     \/ TimeFailUnchecked(H, M, S)
     \/ LocaltimeNullTrap
     \/ LocaltimeNullGarbage
  /\ UNCHANGED << clk, geo, circ, variant, running, scale_factor, res, teardown, init_result,
                  queue, angles, hand_args, draw_failed, presents_pending,
                  cleanups >>

\* double hour_angle = ...; double minute_angle = ...; double second_angle = ...;
ComputeAngles ==
  /\ pc = "angles"
  /\ angles' = [set |-> TRUE,
                hour   |-> HourAngle(variant, sample.hours, sample.minutes),
                minute |-> MinuteAngle(variant, sample.minutes, sample.seconds),
                second |-> SecondAngle(variant, sample.seconds, sample.milliseconds)]
  /\ frame' = Append(frame, "angles")
  /\ pc' = "hour"
  /\ UNCHANGED << clk, geo, circ, variant, running, scale_factor, res, teardown, diag, init_result,
                  exit_status, queue, sample, hand_args, read_failed, draw_failed,
                  presents_pending, cleanups, ever >>

\* draw_hand(..., hour_angle, ...)
DrawHourHand ==
  /\ DrawStep("hour", "minute")
  /\ geo' = HandGeo(variant, "hour", scale_factor, clk)
  /\ clk' = HandCount(variant, clk, geo')
  /\ hand_args' = Append(hand_args, angles.hour)
  /\ UNCHANGED << circ, variant, running, scale_factor, res, teardown, diag, init_result,
                  exit_status, queue, sample, angles, read_failed,
                  presents_pending, cleanups >>

\* draw_hand(..., minute_angle, ...)
DrawMinuteHand ==
  /\ DrawStep("minute", "second")
  /\ geo' = HandGeo(variant, "minute", scale_factor, clk)
  /\ clk' = HandCount(variant, clk, geo')
  /\ hand_args' = Append(hand_args, angles.minute)
  /\ UNCHANGED << circ, variant, running, scale_factor, res, teardown, diag, init_result,
                  exit_status, queue, sample, angles, read_failed,
                  presents_pending, cleanups >>

\* A render_clock that goes from the second hand straight to the present.
DrawSecondHand_SkipHub ==
  /\ DrawStep("second", "present")
  /\ geo' = HandGeo(variant, "second", scale_factor, clk)
  /\ clk' = HandCount(variant, clk, geo')
  /\ hand_args' = Append(hand_args, angles.second)
  /\ UNCHANGED << circ, variant, running, scale_factor, res, teardown, diag, init_result,
                  exit_status, queue, sample, angles, read_failed,
                  presents_pending, cleanups >>

\* draw_hand(..., second_angle, ...), in red
DrawSecondHand ==
  /\ DrawStep("second", "hub")
  /\ geo' = HandGeo(variant, "second", scale_factor, clk)
  /\ clk' = HandCount(variant, clk, geo')
  /\ hand_args' = Append(hand_args, angles.second)
  /\ UNCHANGED << circ, variant, running, scale_factor, res, teardown, diag, init_result,
                  exit_status, queue, sample, angles, read_failed,
                  presents_pending, cleanups >>

\* the center circle
DrawCenter ==
  /\ DrawStep("hub", "present")
  /\ geo' = HubGeo(variant, scale_factor)
  /\ clk' = clk
  /\ UNCHANGED << circ, variant, running, scale_factor, res, teardown, diag, init_result,
                  exit_status, queue, sample, angles, hand_args, read_failed,
                  presents_pending, cleanups >>

\* SDL_GL_SwapWindow / SDL_RenderPresent; the result is not looked at.
Present ==
  /\ pc = "present"
  /\ \E ok \in BOOLEAN : draw_failed' = (draw_failed \/ ~ok)
  /\ frame' = Append(frame, "present")
  /\ ever' = [ever EXCEPT !.rendered = TRUE, !.presented = TRUE]
  /\ presents_pending' =
       IF running # 0 /\ HasStop(queue) /\ presents_pending < MaxPending
         THEN presents_pending + 1 ELSE presents_pending
  /\ pc' = "delay"
  /\ UNCHANGED << clk, geo, circ, variant, running, scale_factor, res, teardown, diag, init_result,
                  exit_status, queue, sample, angles, hand_args, read_failed,
                  cleanups >>

\* SDL_Delay(16) / SDL_Delay(100)
Delay ==
  /\ pc = "delay"
  /\ frame' = Append(frame, "sleep")
  /\ pc' = "loop_test"
  /\ UNCHANGED << clk, geo, circ, variant, running, scale_factor, res, teardown, diag, init_result,
                  exit_status, queue, sample, angles, hand_args, read_failed,
                  draw_failed, presents_pending, cleanups, ever >>

-----------------------------------------------------------------------------
(* cleanup_clock and main's return *)

\* The release calls of cleanup_clock, in order.
CleanupCalls(v) ==
  CASE v = "line"   -> << "SDL_DestroyRenderer", "SDL_DestroyWindow", "SDL_Quit" >>
    [] v = "shader" -> << "free(circle_vertices)", "glDeleteVertexArrays",
                          "glDeleteBuffers", "glDeleteProgram",
                          "SDL_GL_DestroyContext", "SDL_DestroyWindow", "SDL_Quit" >>
    [] v = "3d"     -> << "free(circle_vertices)", "free(hand_vertices)",
                          "glDeleteVertexArrays", "glDeleteBuffers",
                          "glDeleteProgram", "SDL_GL_DestroyContext",
                          "SDL_DestroyWindow", "SDL_Quit" >>

CleanupClock ==
  /\ pc = "cleanup"
  /\ teardown' = teardown \o CleanupCalls(variant)
  /\ res' = Release(res, CleanupCalls(variant))
  /\ cleanups' = cleanups + 1
  /\ pc' = "return"
  /\ UNCHANGED << clk, geo, circ, variant, running, scale_factor, diag, init_result, exit_status,
                  queue, frame, sample, angles, hand_args, read_failed, draw_failed,
                  presents_pending, ever >>

\* return 0;
MainReturn ==
  /\ pc = "return"
  /\ exit_status' = "0"
  /\ pc' = "exited"
  /\ UNCHANGED << clk, geo, circ, variant, running, scale_factor, res, teardown, diag, init_result,
                  queue, frame, sample, angles, hand_args, read_failed, draw_failed,
                  presents_pending, cleanups, ever >>

-----------------------------------------------------------------------------

Next ==
  \/ InitClock
  \/ MainInitCheck
  \/ Enqueue
  \/ LoopTest
  \/ HandleEvents
  \/ Clear
  \/ DrawCircleOutline
  \/ DrawHourMarkers
  \/ GetCurrentTime(HostHours, HostMinutes, HostSeconds, HostNsec)
  \/ ComputeAngles
  \/ DrawHourHand
  \/ DrawMinuteHand
  \/ DrawSecondHand
  \/ DrawCenter
  \/ Present
  \/ Delay
  \/ CleanupClock
  \/ MainReturn

Spec == Init /\ [][Next]_vars

\* The render loop alone, from the state init_clock leaves on success, with
\* nobody at the keyboard and the host clock ranging over every hour and
\* minute: the specification of the claims about the angle arithmetic.
InitFrame ==
  /\ variant \in Variants
  /\ pc = "loop_test"
  /\ running = 1
  /\ scale_factor \in ScaleFactors
  /\ res = Acquired(variant)
  /\ teardown = << >>
  /\ diag = {}
  /\ init_result = "1"
  /\ exit_status = "none"
  /\ queue = << >>
  /\ frame = << >>
  /\ sample = NoSample
  /\ angles = NoAngles
  /\ hand_args = << >>
  /\ read_failed = FALSE
  /\ draw_failed = FALSE
  /\ presents_pending = 0
  /\ cleanups = 0
  /\ ever = NoEver
  /\ clk = PrecomputeCircle(variant, scale_factor, ShaderOf(variant, "linked"))
  /\ geo = PrecomputeGeo(variant, scale_factor, clk)
  /\ circ = NoCirc

NextFrame ==
  \/ LoopTest
  \/ HandleEvents
  \/ Clear
  \/ DrawCircleOutline
  \/ DrawHourMarkers
  \/ GetCurrentTime(AllHours, AllMinutes, EdgeSeconds, HostNsec)
  \/ ComputeAngles
  \/ DrawHourHand
  \/ DrawMinuteHand
  \/ DrawSecondHand
  \/ DrawCenter
  \/ Present
  \/ Delay

SpecFrame == InitFrame /\ [][NextFrame]_vars

-----------------------------------------------------------------------------
(* The tick order *)

IsPrefix(s, t) ==
  /\ Len(s) <= Len(t)
  /\ \A i \in 1..Len(s) : s[i] = t[i]

\* The order of a tick with the time sample and the angles first.
SampleFirstOrder ==
  << "sample", "angles", "clear", "face", "markers", "hour", "minute", "second",
     "hub", "present", "sleep" >>

\* The order of a tick with the time sample after the face and the markers.
SampleAfterMarkersOrder ==
  << "clear", "face", "markers", "sample", "angles", "hour", "minute", "second",
     "hub", "present", "sleep" >>

\* A tick has run to its end: main is back at the loop test or past the loop.
TickDone == pc \in {"loop_test", "cleanup", "return"} /\ ever.rendered

\* C1 as the spec states it: in every variant the steps of a tick run in the
\* order sample time, compute angles, clear, face outline, hour markers, hour
\* hand, minute hand, second hand, hub, present, sleep.
C1_SampleFirstTickOrder ==
  /\ IsPrefix(frame, SampleFirstOrder)
  /\ TickDone => frame = SampleFirstOrder

\* C1 amended: in every variant the steps of a tick run in the order clear,
\* face outline, hour markers, sample time, compute angles, hour hand, minute
\* hand, second hand, hub, present, sleep; a completed tick has run them all.
C1_TickOrder ==
  /\ IsPrefix(frame, SampleAfterMarkersOrder)
  /\ TickDone => frame = SampleAfterMarkersOrder

\* A tick has completed, through to its sleep.
C1_Witness == pc = "loop_test" /\ frame = SampleAfterMarkersOrder

-----------------------------------------------------------------------------
(* Stopping *)

\* The process ended after a poll drained a window-close or Escape-down event.
ExitedAfterStop == pc = "exited" /\ ever.stop_polled

\* The poll that drains a window-close or Escape-down event clears running,
\* and at most one frame is presented while such an event waits.
StopWithinOnePoll ==
  /\ ever.stop_polled => running = 0
  /\ presents_pending <= 1

\* C2 as the spec states it: a window-close or Escape-down event is consumed
\* by the next handle_events call, which clears running; at most one frame is
\* presented while it waits; and the process then exits with status 0 (a
\* process killed by a signal has no exit status and is left aside).
C2_StopExitsZero ==
  /\ StopWithinOnePoll
  /\ ExitedAfterStop /\ exit_status # "SIGSEGV" => exit_status = "0"

\* C2 amended: as above, and the process then exits with status 0 unless the
\* clock read of the one frame rendered after the stop fails; the shader and
\* 3D variants then exit with status 1, and the line variant, which does not
\* test the read, goes on to status 0 or is killed reading through NULL.
C2_StopWithinOnePoll ==
  /\ StopWithinOnePoll
  /\ ExitedAfterStop /\ ~read_failed => exit_status = "0"
  /\ ExitedAfterStop /\ read_failed =>
       IF variant = "line" THEN exit_status \in {"0", "SIGSEGV"}
                           ELSE exit_status = "1"

\* A stop event waited through one presented frame, was polled, and the
\* process returned 0 after cleanup.
C2_Witness ==
  /\ ExitedAfterStop
  /\ exit_status = "0"
  /\ presents_pending = 1
  /\ cleanups = 1

-----------------------------------------------------------------------------
(* The hand angles, in thousandths of a degree *)

\* The sample of this frame is a TimeSample of the data model.
ValidSample ==
  /\ sample.set
  /\ sample.hours \in 0..11
  /\ sample.minutes \in 0..59
  /\ sample.seconds \in 0..59
  /\ sample.milliseconds \in 0..999

\* C3 as the spec states it: for every valid TimeSample and in every variant
\* the angles passed to draw_hand lie in [0, 360).
C3_AnglesNonNegative ==
  ValidSample =>
    \A i \in 1..Len(hand_args) : 0 <= hand_args[i] /\ hand_args[i] < 360000

\* C3 amended: for every valid TimeSample the angles passed to draw_hand lie
\* in [0, 360) in the line and shader variants and in (-360, 0] in the 3D
\* variant, which passes the negated angle.
C3_AngleRange ==
  ValidSample =>
    \A i \in 1..Len(hand_args) :
      IF variant = "3d"
        THEN -360000 < hand_args[i] /\ hand_args[i] <= 0
        ELSE 0 <= hand_args[i] /\ hand_args[i] < 360000

\* The three hands of 11:59:59.999 were drawn by the 3D variant.
C3_Witness ==
  /\ ValidSample
  /\ variant = "3d"
  /\ hand_args = << -359500, -359900, -359994 >>

\* hour12 * 30 + minute * 0.5 of the frame's sample.
HourDeg == (sample.hours * 30000) + (sample.minutes * 500)

\* The hour hand of this frame was drawn from a valid sample.
HourHandDrawn == ValidSample /\ Len(hand_args) >= 1

\* C4 as the spec states it: in every variant the hour angle drawn is
\* hour12*30 + minute*0.5, grows with the minute, is 90 at 3:00 and 0 at 0:00.
C4_HourAngleEveryVariant ==
  HourHandDrawn =>
    /\ hand_args[1] = HourDeg
    /\ sample.minutes < 59 =>
         HourAngle(variant, sample.hours, sample.minutes + 1) > hand_args[1]
    /\ sample.hours = 3 /\ sample.minutes = 0 => hand_args[1] = 90000
    /\ sample.hours = 0 /\ sample.minutes = 0 => hand_args[1] = 0

\* C4 amended: in the line and shader variants the hour angle drawn is
\* hour12*30 + minute*0.5, strictly increasing in the minute, 90 at 3:00; in
\* the 3D variant it is the negation, strictly decreasing, -90 at 3:00; it is
\* 0 at 0:00 in every variant.
C4_HourAngle ==
  HourHandDrawn =>
    /\ hand_args[1] = IF variant = "3d" THEN -HourDeg ELSE HourDeg
    /\ sample.minutes < 59 =>
         IF variant = "3d"
           THEN HourAngle(variant, sample.hours, sample.minutes + 1) < hand_args[1]
           ELSE HourAngle(variant, sample.hours, sample.minutes + 1) > hand_args[1]
    /\ sample.hours = 3 /\ sample.minutes = 0 =>
         hand_args[1] = IF variant = "3d" THEN -90000 ELSE 90000
    /\ sample.hours = 0 /\ sample.minutes = 0 => hand_args[1] = 0

\* The 3D variant drew the hour hand of 3:00.
C4_Witness ==
  /\ HourHandDrawn
  /\ variant = "3d"
  /\ sample.hours = 3
  /\ sample.minutes = 0
  /\ hand_args[1] = -90000

\* second * 6 + millisecond * 0.006 of the frame's sample.
SecondDeg == (sample.seconds * 6000) + (sample.milliseconds * 6)

\* A smooth variant drew the second hand of this frame from a valid sample.
SmoothSecondHandDrawn ==
  ValidSample /\ variant \in {"shader", "3d"} /\ Len(hand_args) = 3

\* C5 as the spec states it: in the shader and 3D variants the second angle
\* drawn is second*6 + millisecond*0.006: 0 at 0.000 s, 359.994 at 59.999 s,
\* below 360 always.
C5_SecondAngleSmoothVariants ==
  SmoothSecondHandDrawn =>
    /\ hand_args[3] = SecondDeg
    /\ sample.seconds = 0 /\ sample.milliseconds = 0 => hand_args[3] = 0
    /\ sample.seconds = 59 /\ sample.milliseconds = 999 => hand_args[3] = 359994
    /\ hand_args[3] < 360000

\* C5 amended: the shader variant draws second*6 + millisecond*0.006 (0 at
\* 0.000 s, 359.994 at 59.999 s, below 360); the 3D variant draws its
\* negation (0 at 0.000 s, -359.994 at 59.999 s, above -360).
C5_SecondAngle ==
  SmoothSecondHandDrawn =>
    /\ hand_args[3] = IF variant = "3d" THEN -SecondDeg ELSE SecondDeg
    /\ sample.seconds = 0 /\ sample.milliseconds = 0 => hand_args[3] = 0
    /\ sample.seconds = 59 /\ sample.milliseconds = 999 =>
         hand_args[3] = IF variant = "3d" THEN -359994 ELSE 359994
    /\ hand_args[3] < 360000
    /\ hand_args[3] > -360000

\* The 3D variant drew the second hand of 59.999 s.
C5_Witness ==
  /\ SmoothSecondHandDrawn
  /\ variant = "3d"
  /\ sample.seconds = 59
  /\ sample.milliseconds = 999
  /\ hand_args[3] = -359994

-----------------------------------------------------------------------------
(* The time sample *)

\* How often get_current_time ran in the current frame.
SamplesInFrame == Cardinality({i \in 1..Len(frame) : frame[i] = "sample"})

\* C6: whatever the host clock returns (tm_sec up to 60), the sample of a
\* frame has hour12 in 0..11, minute in 0..59, second in 0..59, millisecond
\* in 0..999, and it is taken once per frame.
C6_SampleInRange ==
  /\ SamplesInFrame <= 1
  /\ sample.set /\ ~read_failed => ValidSample

\* C7: in every variant a failed clock read is detected: the diagnostic is
\* printed, the process has exited with a non-zero status, and the frame in
\* progress is not presented.
C7_ReadFailureIsFatal ==
  read_failed =>
    /\ pc = "exited"
    /\ exit_status = "1"
    /\ "Error: Unable to get current time" \in diag
    /\ \A i \in 1..Len(frame) : frame[i] # "present"

-----------------------------------------------------------------------------
(* Initialization failure, teardown, draw failure *)

InitDiags ==
  { "SDL initialization failed", "Window creation failed",
    "Renderer creation failed", "OpenGL context creation failed" }

\* C8: when init_clock fails it has printed the diagnostic of the failing
\* step, released exactly what it had acquired (nothing after SDL_Init
\* failed, SDL after the window failed, window and SDL after the context or
\* renderer failed), and main exits with status 1 without a poll, a render
\* step or a present.
C8_InitFailure ==
  init_result = "0" =>
    /\ Cardinality(diag) = 1
    /\ diag \subseteq InitDiags
    /\ res = NoRes
    /\ "SDL initialization failed" \in diag => teardown = << >>
    /\ "Window creation failed" \in diag => teardown = << "SDL_Quit" >>
    /\ diag \cap {"Renderer creation failed", "OpenGL context creation failed"} # {}
         => /\ teardown = << "SDL_DestroyWindow", "SDL_Quit" >>
            /\ ("Renderer creation failed" \in diag) = (variant = "line")
    /\ running = 0
    /\ ever = NoEver
    /\ frame = << >>
    /\ pc \in {"init_ret", "exited"}
    /\ pc = "exited" => exit_status = "1"

\* The context step failed, the window was destroyed, main returned 1.
C8_Witness ==
  /\ init_result = "0"
  /\ pc = "exited"
  /\ exit_status = "1"
  /\ teardown = << "SDL_DestroyWindow", "SDL_Quit" >>

\* C9: on every exit after init_clock succeeded (a return from main or a
\* call of exit; a process killed by a signal is left aside), cleanup_clock
\* has run exactly once and nothing is left held.
C9_CleanupOnEveryExit ==
  pc = "exited" /\ init_result = "1" /\ exit_status # "SIGSEGV" =>
    /\ cleanups = 1
    /\ res = NoRes

\* C10: once a draw step has reported failure the process has terminated;
\* no later draw step and no later tick runs.
C10_DrawFailureTerminates == draw_failed => pc = "exited"

-----------------------------------------------------------------------------
(* draw_circle_outline of the line variant on its own, one loop iteration   *)
(* per step, for the radii the program draws and every small radius.        *)

\* Small radii explored besides the ones render_clock passes.
MaxRadius == 32

\* The radii render_clock passes: the face, (int)(250 * s), and the hub,
\* (int)(8 * s).
DrawnRadii == { Scaled(250, s) : s \in ScaleFactors } \cup
              { Scaled(8, s) : s \in ScaleFactors }

InitCircle ==
  /\ variant = "line"
  /\ pc = "circle"
  /\ running = 1
  /\ scale_factor \in ScaleFactors
  /\ res = Acquired("line")
  /\ teardown = << >>
  /\ diag = {}
  /\ init_result = "1"
  /\ exit_status = "none"
  /\ queue = << >>
  /\ frame = << >>
  /\ sample = NoSample
  /\ angles = NoAngles
  /\ hand_args = << >>
  /\ read_failed = FALSE
  /\ draw_failed = FALSE
  /\ presents_pending = 0
  /\ cleanups = 0
  /\ ever = NoEver
  /\ clk = NoClk
  /\ geo = NoGeo
  /\ \E r \in (0 .. MaxRadius) \cup DrawnRadii :
       circ = [st |-> McStart(r), plotted |-> {}, prev |-> McStart(r),
               active |-> TRUE]

\* One iteration of while (y >= x): the eight points, then the update.
McStep ==
  /\ pc = "circle"
  /\ circ.active
  /\ McGuard(circ.st)
  /\ circ' = [st |-> McBody(circ.st),
              plotted |-> circ.plotted \cup McPlot(circ.st),
              prev |-> circ.st,
              active |-> TRUE]
  /\ UNCHANGED << variant, pc, running, scale_factor, res, teardown, diag,
                  init_result, exit_status, queue, frame, sample, angles,
                  hand_args, read_failed, draw_failed, presents_pending,
                  cleanups, ever, clk, geo >>

\* The loop test fails: draw_circle_outline returns.
McExit ==
  /\ pc = "circle"
  /\ circ.active
  /\ ~McGuard(circ.st)
  /\ circ' = [circ EXCEPT !.active = FALSE]
  /\ UNCHANGED << variant, pc, running, scale_factor, res, teardown, diag,
                  init_result, exit_status, queue, frame, sample, angles,
                  hand_args, read_failed, draw_failed, presents_pending,
                  cleanups, ever, clk, geo >>

NextCircle == McStep \/ McExit

SpecCircle == InitCircle /\ [][NextCircle]_vars

-----------------------------------------------------------------------------
\* The diagnostics of compile_shader and create_shader_program.
ShaderDiags == {"Shader compilation failed", "Shader program linking failed"}

\* C11: a shader that fails to compile or link is not fatal.  Whenever the
\* program handle held is one whose link failed, the link diagnostic was
\* printed, init_clock returned 1, running is 1 when init_clock returns, and
\* the process ends with status 1 only through a failed time read; conversely
\* a printed shader diagnostic always comes with a returned handle.
C11_ShaderFailureNonFatal ==
  /\ clk.shader_program = "unlinked" =>
       /\ "Shader program linking failed" \in diag
       /\ init_result = "1"
       /\ pc = "init_ret" => running = 1
       /\ exit_status = "1" => read_failed
  /\ diag \cap ShaderDiags # {} => clk.shader_program = "unlinked"

\* C11 witness: after a compile failure a frame has been presented.
C11_Witness ==
  /\ clk.shader_program = "unlinked"
  /\ "Shader compilation failed" \in diag
  /\ ever.presented
  /\ pc = "delay"

-----------------------------------------------------------------------------
\* The vertices a buffer holds when it is handed to its draw call: those of
\* the latest generation into it.
Filled ==
  IF geo.buffer = "circle_vertices" THEN clk.circle_written ELSE geo.w.count

\* The two buffers init_clock of the 3D variant allocates with room to spare.
Oversized == variant = "3d" /\ geo.buffer \in {"circle_vertices", "hand_vertices"}

\* C12 as stated: every geometry buffer has exactly the capacity of the
\* vertices written into it, and exactly those are submitted.
C12_BuffersExact ==
  geo.buffer # "none" =>
    /\ geo.capacity = Filled
    /\ geo.step # "precompute" => geo.submitted = Filled

\* C12: every draw call submits exactly the vertices written, the buffer is
\* never smaller than that, and it is exactly that size except for the two
\* allocated buffers of the 3D variant: 1000 for the 360 of the face ring, 100
\* for the 12 of a hand.
C12_BuffersFit ==
  geo.buffer # "none" =>
    /\ Filled <= geo.capacity
    /\ geo.step # "precompute" => geo.submitted = Filled
    /\ ~Oversized => geo.capacity = Filled
    /\ Oversized /\ geo.buffer = "circle_vertices" =>
         geo.capacity = 1000 /\ Filled = 360
    /\ Oversized /\ geo.buffer = "hand_vertices" =>
         geo.capacity = 100 /\ Filled = 12

\* C12 witness: the 3D variant has drawn a hand of 12 vertices out of its
\* buffer of 100.
C12_Witness ==
  /\ variant = "3d"
  /\ geo.step = "hour"
  /\ geo.capacity = 100
  /\ geo.submitted = 12
  /\ clk.hand_vertex_count = 12

-----------------------------------------------------------------------------
\* The lengths a step of variant v uses at scale factor s, in thousandths.
LengthsAt(v, step, s) ==
  CASE step = "precompute" -> PrecomputeGeo(v, s, NoClk).lengths
    [] step = "face" -> FaceGeo(v, s, NoClk).lengths
    [] step = "markers" -> MarkerGeo(v, s).lengths
    [] step \in {"hour", "minute", "second"} -> HandGeo(v, step, s, NoClk).lengths
    [] step = "hub" -> HubGeo(v, s).lengths
    [] OTHER -> << >>

\* C13: the scale factor is applied uniformly.  Every length, radius and
\* depth offset the latest geometry step used equals the scale factor times
\* what the same step uses at scale factor 1.
C13_UniformScale ==
  \A name \in DOMAIN geo.lengths :
    geo.lengths[name] = scale_factor * LengthsAt(variant, geo.step, 1)[name]

\* The radius handed to the marker generator, in pixels.
MarkerRadius == geo.lengths.radius \div 1000

\* Twelve markers at 0, 30, ..., 330 degrees, each from radius - markerLength
\* to radius.
TwelveMarkers ==
  /\ Len(geo.markers) = 12
  /\ \A k \in 1..Len(geo.markers) :
       /\ geo.markers[k].angle = (k - 1) * 30000
       /\ geo.markers[k].outer = MarkerRadius
       /\ geo.markers[k].inner = MarkerRadius - (geo.lengths.marker_length \div 1000)
       /\ geo.markers[k].thickness_milli = geo.lengths.marker_thickness

\* markerLength and markerThickness are the exact twelfth and eightieth.
ExactDivision ==
  /\ 12 * geo.lengths.marker_length = geo.lengths.radius
  /\ 80 * geo.lengths.marker_thickness = geo.lengths.radius

\* markerLength and markerThickness are the whole-number quotients.
WholeDivision ==
  /\ geo.lengths.marker_length = 1000 * (MarkerRadius \div 12)
  /\ geo.lengths.marker_thickness = 1000 * (MarkerRadius \div 80)

\* C14 as stated: in every variant twelve markers at the multiples of 30
\* degrees, with markerLength = radius/12 and markerThickness = radius/80,
\* the division read the same way (exact, or whole-number) for both.
C14_MarkersOneDivision ==
  geo.step = "markers" => TwelveMarkers /\ (ExactDivision \/ WholeDivision)

\* C14: in every variant twelve markers at the multiples of 30 degrees, each
\* from radius - markerLength to radius; markerLength is the whole-number
\* quotient radius / 12 in every variant; markerThickness is the whole-number
\* quotient radius / 80 in the 2D variants and the exact eightieth in the 3D
\* variant.
C14_Markers ==
  geo.step = "markers" =>
    /\ TwelveMarkers
    /\ geo.lengths.marker_length = 1000 * (MarkerRadius \div 12)
    /\ IF variant = "3d"
         THEN 80 * geo.lengths.marker_thickness = geo.lengths.radius
         ELSE geo.lengths.marker_thickness = 1000 * (MarkerRadius \div 80)

\* C14 witness: the 3D variant at scale 1 has generated its markers, the last
\* at 330 degrees, 20 long and 3.125 thick.
C14_Witness ==
  /\ variant = "3d"
  /\ scale_factor = 1
  /\ geo.step = "markers"
  /\ Len(geo.markers) = 12
  /\ geo.markers[12].angle = 330000
  /\ geo.markers[12].inner = 230
  /\ geo.lengths.marker_thickness = 3125

-----------------------------------------------------------------------------
\* Two generating angles, in thousandths of a degree, give the same point of
\* the circle.
SamePosition(a, b) == a % 360000 = b % 360000

\* C15: in the shader variant, once init_clock has succeeded,
\* circle_vertex_count is 721 in every state, and every generation of the face
\* circle (at init and in each frame) writes exactly the 721 points 0..720,
\* point i at i * 360 / 720 degrees, the first and the last at the same
\* position.
C15_FaceCircle ==
  variant = "shader" /\ clk.shader_program # "none" =>
    /\ clk.circle_vertex_count = 721
    /\ geo.buffer = "circle_vertices" =>
         /\ geo.w = [count |-> 721, lo |-> 0, hi |-> 720]
         /\ Len(geo.ring) = 721
         /\ \A i \in 0..720 : 720 * geo.ring[i + 1] = i * 360000
         /\ SamePosition(geo.ring[1], geo.ring[721])
         /\ geo.step = "face" => geo.submitted = 721

\* C15 witness: the face circle has been regenerated in a frame after the
\* first one, its last point at 360 degrees.
C15_Witness ==
  /\ variant = "shader"
  /\ ever.presented
  /\ geo.step = "face"
  /\ geo.ring[1] = 0
  /\ geo.ring[721] = 360000
  /\ clk.circle_vertex_count = 721

-----------------------------------------------------------------------------
\* C16: the midpoint circle, for every radius >= 0.  The set of plotted
\* offsets is symmetric under x -> -x, under y -> -y and under swapping x and
\* y; every iteration raises x by exactly 1 and lowers y by 0 or 1; and when
\* the loop has ended, the octant point plotted last has y - x in {0, 1}.
C16_MidpointCircle ==
  /\ \A p \in circ.plotted :
       /\ << -p[1], p[2] >> \in circ.plotted
       /\ << p[1], -p[2] >> \in circ.plotted
       /\ << p[2], p[1] >> \in circ.plotted
  /\ circ.st.iterations > 0 =>
       /\ circ.st.x = circ.prev.x + 1
       /\ circ.prev.y - circ.st.y \in {0, 1}
       /\ << circ.prev.x, circ.prev.y >> \in circ.plotted
  /\ ~circ.active =>
       /\ circ.st.iterations > 0
       /\ circ.prev.y - circ.prev.x \in {0, 1}

\* C16 witness: the face circle of radius 250 is complete, its last octant
\* point (176, 177) and the mirror images of it plotted.
C16_Witness ==
  /\ ~circ.active
  /\ circ.st.radius = 250
  /\ circ.prev.x = 176 /\ circ.prev.y = 177
  /\ << -177, 176 >> \in circ.plotted
  /\ << 0, 250 >> \in circ.plotted

\* C19: for every radius r >= 1 the loop started with d = 3 - r ends within
\* r + 1 iterations (y - x falls by at least 1 per iteration from r, and the
\* loop runs only while it is >= 0), and every plotted offset lies within one
\* pixel of the circle: (r - 1)^2 <= x^2 + y^2 <= (r + 1)^2.
C19_MidpointBounded ==
  circ.st.radius >= 1 =>
    /\ circ.st.iterations <= circ.st.radius + 1
    /\ circ.st.y - circ.st.x <= circ.st.radius - circ.st.iterations
    /\ circ.st.iterations = 0 => circ.st.d = 3 - circ.st.radius
    /\ \A p \in circ.plotted :
         /\ (circ.st.radius - 1) * (circ.st.radius - 1) <= (p[1] * p[1]) + (p[2] * p[2])
         /\ (p[1] * p[1]) + (p[2] * p[2]) <= (circ.st.radius + 1) * (circ.st.radius + 1)

\* C19 witness: the circle of radius 500 is complete after 354 iterations.
C19_Witness ==
  /\ ~circ.active
  /\ circ.st.radius = 500
  /\ circ.st.iterations = 354
  /\ << 353, 354 >> \in circ.plotted

-----------------------------------------------------------------------------
\* How often a step occurs in the current loop iteration, whose log starts
\* after the iteration's event poll.
StepCount(step) == Cardinality({ i \in 1..Len(frame) : frame[i] = step })

\* After the poll that cleared running: running stays 0, main is never again
\* at an event poll, and the iteration renders, presents and sleeps at most
\* once.
StoppedForGood ==
  ever.stop_polled =>
    /\ running = 0
    /\ pc # "handle_events"
    /\ StepCount("clear") <= 1
    /\ StepCount("present") <= 1
    /\ StepCount("sleep") <= 1
    /\ cleanups <= 1

\* C17 as stated: after the poll that cleared running, running never becomes
\* 1 again and no event is polled; main renders and presents exactly one more
\* frame, sleeps once more, calls cleanup_clock once and returns 0 (a process
\* killed by a signal returns nothing and is left aside).
C17_OneMoreFrameThenZero ==
  /\ StoppedForGood
  /\ ExitedAfterStop /\ exit_status # "SIGSEGV" =>
       /\ StepCount("clear") = 1
       /\ StepCount("present") = 1
       /\ StepCount("sleep") = 1
       /\ cleanups = 1
       /\ exit_status = "0"

\* C17 amended: after the poll that cleared running, running never becomes 1
\* again, no event is polled, and exactly one more render_clock starts.  When
\* the process ends with status 0 that frame was presented, one delay
\* followed and cleanup_clock ran once.  Otherwise the time read of that frame
\* failed and the process ended inside render_clock, before the present, the
\* delay and cleanup_clock: with status 1 in the shader and 3D variants,
\* killed by the read through NULL in the line variant.
C17_OneMoreFrame ==
  /\ StoppedForGood
  /\ ExitedAfterStop => StepCount("clear") = 1
  /\ ExitedAfterStop /\ ~read_failed => exit_status = "0"
  /\ ExitedAfterStop /\ exit_status = "0" =>
       /\ frame = SampleAfterMarkersOrder
       /\ cleanups = 1
  /\ ExitedAfterStop /\ exit_status # "0" =>
       /\ read_failed
       /\ StepCount("present") = 0
       /\ StepCount("sleep") = 0
       /\ cleanups = 0
       /\ exit_status = IF variant = "line" THEN "SIGSEGV" ELSE "1"

\* C17 witness: after the stop poll one frame was rendered, presented and
\* slept on, cleanup_clock ran once, main returned 0, running still 0.
C17_Witness ==
  /\ ExitedAfterStop
  /\ running = 0
  /\ frame = SampleAfterMarkersOrder
  /\ cleanups = 1
  /\ exit_status = "0"
  /\ ~read_failed

-----------------------------------------------------------------------------
\* The latest generator call wrote `count` vertices, at the indices
\* 0 .. count - 1, into a buffer of `capacity`.
Wrote(count, capacity) ==
  /\ geo.w = [count |-> count, lo |-> 0, hi |-> count - 1]
  /\ geo.capacity = capacity

\* C18: every vertex write stays inside its buffer, in every frame and at
\* every scale factor.  The shader circle writes the indices 0..720 of 721 at
\* precompute and in each frame; the shader marker generator writes 72 of 72;
\* the 3D face ring writes 360 of 1000 and the 3D hub ring 120 of 120; a 3D
\* hand writes 12 of 100; the 3D marker generator writes 144 of 144.
C18_WritesInBounds ==
  /\ geo.buffer = "none" => geo.w.count = 0
  /\ geo.w.count > 0 => geo.w.lo >= 0 /\ geo.w.hi < geo.capacity
  /\ variant = "shader" /\ geo.buffer = "circle_vertices" => Wrote(721, 721)
  /\ variant = "shader" /\ geo.buffer = "marker_vertices" => Wrote(72, 72)
  /\ variant = "3d" /\ geo.step = "precompute" => Wrote(360, 1000)
  /\ variant = "3d" /\ geo.buffer = "center_vertices" => Wrote(120, 120)
  /\ variant = "3d" /\ geo.buffer = "hand_vertices" => Wrote(12, 100)
  /\ variant = "3d" /\ geo.buffer = "marker_vertices" => Wrote(144, 144)

\* C18 witness: at scale factor 2 the 3D hub ring has filled its array of 120
\* up to the last index.
C18_Witness ==
  /\ variant = "3d"
  /\ scale_factor = 2
  /\ geo.step = "hub"
  /\ geo.w.hi = 119
  /\ geo.capacity = 120
  /\ ever.presented

====
